---------------------------- MODULE Spec2Model ----------------------------
(***************************************************************************)
(* State-machine model of the customer / transaction / invoice HTTP API    *)
(* of app/main.py and the schemas of app/models.py.                        *)
(*                                                                         *)
(* Python values are tagged records, so that None, strings and integers    *)
(* can be compared with each other: None, PyStr("Ann"), PyInt(30).         *)
(* A JSON object (request body, model_dump() result) is a function from    *)
(* its keys to values; a key that is absent is outside its DOMAIN.         *)
(* A response is [status, body]; an exception that no handler catches is   *)
(* the 500 response ServerError.                                           *)
(***************************************************************************)
EXTENDS Integers, Sequences, FiniteSets, TLC

VARIABLES
    table,     \* rows of the Customer table: a set of Customer records
    nextId,    \* the primary key the storage assigns to the next inserted row
    req,       \* the request handled last
    resp,      \* the response it was given
    deleted,   \* history: ids for which DELETE /customer/{id} returned ok
    posted,    \* history: the bodies returned by successful POST /customers
    patched,   \* history: TRUE once a PATCH /customer/{id} has succeeded
    requests,  \* concurrent requests: the requests received, each with the
               \* position of its handler, what it holds and its response
    running    \* concurrent requests: the request whose handler occupies the
               \* event loop, or 0

vars == <<table, nextId, req, resp, deleted, posted, patched, requests, running>>

\* What the one-request-at-a-time actions leave alone, and what the
\* concurrent ones do.
concurrent == <<requests, running>>
sequential == <<req, resp, posted, patched>>

---------------------------------------------------------------------------
(* Bounds of the model *)

MaxCustomers == 2    \* POST /customers is explored until this many ids exist
MaxCodeLen == 2      \* longest iso_code tried on GET /time/{iso_code}
MaxRequests == 4     \* requests received in a run of concurrent requests

---------------------------------------------------------------------------
(* Python / JSON values *)

None == [t |-> "None"]
PyStr(s) == [t |-> "str", s |-> s]
PyInt(n) == [t |-> "int", n |-> n]

\* The JSON object with the given <<key, value>> members.
Object(members) ==
    [k \in {m[1] : m \in members} |-> (CHOOSE m \in members : m[1] = k)[2]]

EmptyObject == Object({})

HTTP_200_OK == 200
HTTP_201_CREATED == 201
HTTP_404_NOT_FOUND == 404

Response(status, body) == [status |-> status, body |-> body]

\* raise HTTPException(status_code=status.HTTP_404_NOT_FOUND, detail=...)
NotFound == Response(HTTP_404_NOT_FOUND, [detail |-> "Customer doesn't exist"])

\* FastAPI answers a body that fails the parameter's schema before the
\* handler runs (the field-level detail is not modelled).
ValidationError == Response(422, [detail |-> "validation error"])

\* An exception raised inside a handler and caught by nobody.
ServerError == Response(500, [detail |-> "Internal Server Error"])

---------------------------------------------------------------------------
(* app/models.py: the Customer schemas *)

\* The fields CustomerBase declares.
BaseFields == {"age", "description", "email", "name"}

\* Customer adds the primary key.
CustomerFields == BaseFields \cup {"id"}

\* Faulty variant of FieldAccepts: every field annotated "... | None".
FieldAccepts_nullable(k, v) ==
    CASE k = "name"        -> v.t \in {"str", "None"}
      [] k = "description" -> v.t \in {"str", "None"}
      [] k = "email"       -> v.t \in {"str", "None"}
      [] k = "age"         -> v.t \in {"int", "None"}
      [] k = "id"          -> v.t \in {"int", "None"}

\* The annotation of each field decides which values validation accepts:
\* name: str, description: str | None, email: str, age: int, id: int | None.
\* Field(default=None) supplies the value of an omitted field and is not
\* itself validated.  (A string is not an int here: the model's inputs hold
\* no numeric strings, the only strings pydantic converts.)
FieldAccepts(k, v) ==
    CASE k = "name"        -> v.t = "str"
      [] k = "description" -> v.t \in {"str", "None"}
      [] k = "email"       -> v.t = "str"
      [] k = "age"         -> v.t = "int"
      [] k = "id"          -> v.t \in {"int", "None"}

\* Validation of a JSON object against CustomerBase (CustomerCreate and
\* CustomerUpdate add nothing to it): keys that are no field are ignored,
\* omitted fields take the default None, and the fields given explicitly
\* are remembered (pydantic's model_fields_set).
CustomerBase(body) ==
    LET given == DOMAIN body \cap BaseFields IN
    IF \A k \in given : FieldAccepts(k, body[k])
    THEN [fields |-> [k \in BaseFields |-> IF k \in given THEN body[k] ELSE None],
          fields_set |-> given,
          ok |-> TRUE]
    ELSE [ok |-> FALSE]

CustomerCreate(body) == CustomerBase(body)

\* Faulty variant of CustomerUpdate: the update schema derived from Customer,
\* so that "id" is one of its fields.
CustomerUpdate_with_id(body) ==
    LET given == DOMAIN body \cap CustomerFields IN
    IF \A k \in given : FieldAccepts(k, body[k])
    THEN [fields |-> [k \in CustomerFields |-> IF k \in given THEN body[k] ELSE None],
          fields_set |-> given,
          ok |-> TRUE]
    ELSE [ok |-> FALSE]

CustomerUpdate(body) == CustomerBase(body)

\* customer_data.model_dump(): every field, set or defaulted.
model_dump(data) == data.fields

\* Faulty variant of model_dump_exclude_unset: exclude_unset forgotten.
model_dump_with_unset(data) == data.fields

\* customer_data.model_dump(exclude_unset=True): only the fields the caller gave.
model_dump_exclude_unset(data) == [k \in data.fields_set |-> data.fields[k]]

\* Customer.model_validate(dict): validates every key of the dict that is a
\* Customer field, None included, and builds a Customer whose id is None.
Customer_model_validate(d) ==
    LET given == DOMAIN d \cap CustomerFields IN
    IF \A k \in given : FieldAccepts(k, d[k])
    THEN [ok |-> TRUE,
          row |-> [k \in CustomerFields |-> IF k \in given THEN d[k] ELSE None]]
    ELSE [ok |-> FALSE]

\* customer_db.sqlmodel_update(dict): sets every key of the dict that is a
\* field of Customer on the record, without validation.
sqlmodel_update(row, d) ==
    [k \in CustomerFields |-> IF k \in DOMAIN d THEN d[k] ELSE row[k]]

---------------------------------------------------------------------------
(* The storage session (the operations of SessionDep the handlers call) *)

\* session.get(Customer, customer_id): the rows with that primary key.
session_get(t, customer_id) == {r \in t : r["id"] = PyInt(customer_id)}

\* The primary key the storage gives a row inserted with id None.
AssignId(n) == PyInt(n)

\* session.add(customer); session.commit(); session.refresh(customer) for a
\* new record: the row as stored, with its assigned primary key.
session_insert(row, n) == [row EXCEPT !["id"] = AssignId(n)]

\* session.add(customer_db); session.commit() for a loaded record: the row
\* that was loaded is replaced by its updated value.
session_update(t, old, new) == (t \ {old}) \cup {new}

\* Faulty variant of session_delete: the deletion is never committed.
session_delete_uncommitted(t, row) == t

\* session.delete(customer_db); session.commit()
session_delete(t, row) == t \ {row}

\* session.exec(select(Customer)).all(): every row, in primary-key order.
RECURSIVE select_all(_)
select_all(t) ==
    IF t = {} THEN <<>>
    ELSE LET first == CHOOSE r \in t : \A o \in t : r["id"].n <= o["id"].n
         IN  <<first>> \o select_all(t \ {first})

---------------------------------------------------------------------------
(* app/main.py: the customer handlers, as functions of the stored table    *)
(* and the request; each gives the response and the table afterwards.      *)

Outcome(r, t) == [table |-> t, resp |-> r]

\* POST /customers
create_customer(t, n, body) ==
    LET customer_data == CustomerCreate(body) IN
    IF ~customer_data.ok THEN Outcome(ValidationError, t)
    ELSE LET customer == Customer_model_validate(model_dump(customer_data)) IN
         IF ~customer.ok THEN Outcome(ServerError, t)
         ELSE LET stored == session_insert(customer.row, n) IN
              Outcome(Response(HTTP_200_OK, stored), t \cup {stored})

\* GET /customer/{customer_id}
read_customer(t, customer_id) ==
    LET customer_db == session_get(t, customer_id) IN
    IF customer_db = {} THEN Outcome(NotFound, t)
    ELSE Outcome(Response(HTTP_200_OK, CHOOSE r \in customer_db : TRUE), t)

\* PATCH /customer/{customer_id}
update_customer(t, customer_id, body) ==
    LET customer_data == CustomerUpdate(body) IN
    IF ~customer_data.ok THEN Outcome(ValidationError, t)
    ELSE LET customer_db == session_get(t, customer_id) IN
         IF customer_db = {} THEN Outcome(NotFound, t)
         ELSE LET old == CHOOSE r \in customer_db : TRUE
                  customer_data_dict == model_dump_exclude_unset(customer_data)
                  new == sqlmodel_update(old, customer_data_dict)
              IN  Outcome(Response(HTTP_201_CREATED, new), session_update(t, old, new))

\* Faulty variant of delete_customer: the "if not customer_db" test is missing.
delete_customer_unchecked(t, customer_id) ==
    Outcome(Response(HTTP_200_OK, [detail |-> "ok"]), t \ session_get(t, customer_id))

\* DELETE /customer/{customer_id}
delete_customer(t, customer_id) ==
    LET customer_db == session_get(t, customer_id) IN
    IF customer_db = {} THEN Outcome(NotFound, t)
    ELSE Outcome(Response(HTTP_200_OK, [detail |-> "ok"]),
                 session_delete(t, CHOOSE r \in customer_db : TRUE))

\* Faulty variant of list_customer: .first() in place of .all().
list_customer_first(t) ==
    Outcome(Response(HTTP_200_OK, IF t = {} THEN <<>> ELSE <<Head(select_all(t))>>), t)

\* GET /customers
list_customer(t) == Outcome(Response(HTTP_200_OK, select_all(t)), t)

---------------------------------------------------------------------------
(* app/main.py: GET / and GET /time/{iso_code}.  A str is a sequence of     *)
(* one-character strings.                                                  *)

LowerLetters == <<"a", "b", "c", "e", "m", "o", "p", "r", "x", "z">>
UpperLetters == <<"A", "B", "C", "E", "M", "O", "P", "R", "X", "Z">>

\* str.upper() on one character: a lower-case letter becomes its capital,
\* every other character stays.
upper_char(c) ==
    IF \E i \in DOMAIN LowerLetters : LowerLetters[i] = c
    THEN UpperLetters[CHOOSE i \in DOMAIN LowerLetters : LowerLetters[i] = c]
    ELSE c

\* iso_code.upper()
upper(s) == [i \in 1 .. Len(s) |-> upper_char(s[i])]

country_timezones ==
    Object({ << <<"C", "O">>, "America/Bogota" >>,
             << <<"M", "X">>, "America/Mexico_City" >>,
             << <<"A", "R">>, "America/Argentina/Buenos_Aires" >>,
             << <<"B", "R">>, "America/Sao_Paulo" >>,
             << <<"P", "E">>, "America/Lima" >> })

\* country_timezones.get(iso): the value, or None for a missing key.
dict_get(d, key) == IF key \in DOMAIN d THEN PyStr(d[key]) ELSE None

\* zoneinfo.ZoneInfo(key) raises for a key that is no string (the IANA
\* database holds every zone of the table).
ZoneInfo(key) == IF key.t = "str" THEN [ok |-> TRUE, key |-> key] ELSE [ok |-> FALSE]

\* GET /
root == Response(HTTP_200_OK, [message |-> "Hola, Manuel!"])

\* Faulty variant of time: the table is searched with iso_code as given.
time_without_upper(iso_code) ==
    LET timezone_str == dict_get(country_timezones, iso_code)
        tz == ZoneInfo(timezone_str)
    IN  IF ~tz.ok THEN ServerError
        ELSE Response(HTTP_200_OK,
                      [iso_code |-> upper(iso_code), country_zone |-> timezone_str])

\* GET /time/{iso_code}; the clock reading datetime.now(tz) is not modelled.
time(iso_code) ==
    LET iso == upper(iso_code)
        timezone_str == dict_get(country_timezones, iso)
        tz == ZoneInfo(timezone_str)
    IN  IF ~tz.ok THEN ServerError
        ELSE Response(HTTP_200_OK,
                      [iso_code |-> upper(iso_code), country_zone |-> timezone_str])

---------------------------------------------------------------------------
(* app/models.py and app/main.py: transactions and invoices *)

\* class Transaction(BaseModel): id: int, ammount: int, description: str,
\* all required; keys that are no field are ignored.
Transaction(body) ==
    IF /\ {"ammount", "description", "id"} \subseteq DOMAIN body
       /\ body["id"].t = "int"
       /\ body["ammount"].t = "int"
       /\ body["description"].t = "str"
    THEN [fields |-> [k \in {"ammount", "description", "id"} |-> body[k]],
          ok |-> TRUE]
    ELSE [ok |-> FALSE]

\* Customer as a field of another model: a table model is built by its
\* constructor, which fills the defaults of absent fields.
Customer_init(d) ==
    [k \in CustomerFields |-> IF k \in DOMAIN d THEN d[k] ELSE None]

\* class Invoice(BaseModel): id: int, customer: Customer,
\* transactions: list[Transaction], total: int, all required.  total is not
\* compared with the transactions.
Invoice(body) ==
    IF /\ {"customer", "id", "total", "transactions"} \subseteq DOMAIN body
       /\ body["id"].t = "int"
       /\ body["total"].t = "int"
       /\ \A i \in DOMAIN body["transactions"] : Transaction(body["transactions"][i]).ok
    THEN [fields |->
              Object({ <<"id", body["id"]>>,
                       <<"customer", Customer_init(body["customer"])>>,
                       <<"transactions",
                         [i \in DOMAIN body["transactions"] |->
                             Transaction(body["transactions"][i]).fields]>>,
                       <<"total", body["total"]>> }),
          ok |-> TRUE]
    ELSE [ok |-> FALSE]

\* POST /transactions
create_transaction(body) ==
    LET customer_data == Transaction(body) IN
    IF ~customer_data.ok THEN ValidationError
    ELSE Response(HTTP_200_OK, customer_data.fields)

\* POST /invoices
create_invoice(body) ==
    LET customer_data == Invoice(body) IN
    IF ~customer_data.ok THEN ValidationError
    ELSE Response(HTTP_200_OK, customer_data.fields)

---------------------------------------------------------------------------
(* Request inputs *)

Body1 == Object({ <<"name", PyStr("Ann")>>, <<"description", PyStr("vip")>>,
                  <<"email", PyStr("a@x")>>, <<"age", PyInt(41)>> })
Body2 == Object({ <<"name", PyStr("Bob")>>, <<"email", PyStr("b@x")>>, <<"age", PyInt(30)>> })

CustomerBodies ==
    { Body1, Body2,
      EmptyObject,
      Object({<<"age", PyInt(30)>>}),
      Object({<<"description", None>>, <<"name", PyStr("Bob")>>}),
      Object({<<"name", None>>}),
      Object({<<"email", None>>}),
      Object({<<"age", None>>}),
      Object({<<"age", PyStr("old")>>}),
      Object({<<"age", PyInt(30)>>, <<"id", PyInt(9)>>}) }

\* Ids a request may name: every id that can exist, and one that never does.
CustomerIds == 1 .. (MaxCustomers + 1)

\* Path parameters of GET /time/{iso_code} tried between customer requests.
IsoCodes == { <<"c", "o">>, <<"C", "O">>, <<"P", "e">>, <<"z", "z">> }

\* Every path parameter of one to MaxCodeLen characters of the alphabet, and
\* spellings of the codes the alphabet cannot write.
TimeAlphabet == {"c", "C", "o", "O", "p", "P", "e", "E", "z", "Z", "1"}

AllIsoCodes ==
    UNION {[1 .. n -> TimeAlphabet] : n \in 1 .. MaxCodeLen}
    \cup { <<"m", "x">>, <<"M", "X">>, <<"M", "x">>, <<"a", "r">>, <<"A", "R">>,
           <<"a", "R">>, <<"b", "r">>, <<"B", "R">>, <<"B", "r">>, <<"x", "m">> }

\* A transaction body with the field names of app/models.py, one with the
\* spelling "amount", and one with both.
TransactionCoded ==
    Object({ <<"id", PyInt(1)>>, <<"ammount", PyInt(10)>>, <<"description", PyStr("fee")>> })
TransactionSpelled ==
    Object({ <<"id", PyInt(1)>>, <<"amount", PyInt(10)>>, <<"description", PyStr("fee")>> })
TransactionBoth ==
    Object({ <<"id", PyInt(1)>>, <<"amount", PyInt(10)>>, <<"ammount", PyInt(10)>>,
             <<"description", PyStr("fee")>> })
TransactionBodies == { TransactionCoded, TransactionSpelled, TransactionBoth }

InvoiceCustomer ==
    Object({ <<"id", PyInt(1)>>, <<"name", PyStr("Ann")>>, <<"description", PyStr("vip")>>,
             <<"email", PyStr("a@x")>>, <<"age", PyInt(41)>> })

InvoiceBody(transactions, total) ==
    Object({ <<"id", PyInt(7)>>, <<"customer", InvoiceCustomer>>,
             <<"transactions", transactions>>, <<"total", PyInt(total)>> })

InvoiceBodies ==
    { InvoiceBody(<<TransactionCoded>>, 10),
      InvoiceBody(<<TransactionCoded>>, 99),
      InvoiceBody(<<>>, 5),
      InvoiceBody(<<TransactionSpelled>>, 10) }

---------------------------------------------------------------------------
(* The state machine *)

NoRequest == [op |-> "none"]

Init ==
    /\ table = {}
    /\ nextId = 1
    /\ req = NoRequest
    /\ resp = Response(HTTP_200_OK, None)
    /\ deleted = {}
    /\ posted = <<>>
    /\ patched = FALSE
    /\ requests = <<>>
    /\ running = 0

CreateCustomer ==
    \E body \in CustomerBodies :
        LET out == create_customer(table, nextId, body)
            created == out.resp.status = HTTP_200_OK
        IN  /\ nextId <= MaxCustomers
            /\ req' = [body |-> body, op |-> "create_customer"]
            /\ resp' = out.resp
            /\ table' = out.table
            /\ nextId' = IF created THEN nextId + 1 ELSE nextId
            /\ posted' = IF created THEN Append(posted, out.resp.body) ELSE posted
            /\ UNCHANGED <<deleted, patched, concurrent>>

ReadCustomer ==
    \E customer_id \in CustomerIds :
        LET out == read_customer(table, customer_id)
        IN  /\ req' = [customer_id |-> customer_id, op |-> "read_customer"]
            /\ resp' = out.resp
            /\ table' = out.table
            /\ UNCHANGED <<nextId, deleted, posted, patched, concurrent>>

UpdateCustomer ==
    \E customer_id \in CustomerIds, body \in CustomerBodies :
        LET out == update_customer(table, customer_id, body)
        IN  /\ req' = [body |-> body, customer_id |-> customer_id, op |-> "update_customer"]
            /\ resp' = out.resp
            /\ table' = out.table
            /\ patched' = (patched \/ out.resp.status = HTTP_201_CREATED)
            /\ UNCHANGED <<nextId, deleted, posted, concurrent>>

DeleteCustomer ==
    \E customer_id \in CustomerIds :
        LET out == delete_customer(table, customer_id)
        IN  /\ req' = [customer_id |-> customer_id, op |-> "delete_customer"]
            /\ resp' = out.resp
            /\ table' = out.table
            /\ deleted' = IF out.resp.status = HTTP_200_OK
                          THEN deleted \cup {customer_id} ELSE deleted
            /\ UNCHANGED <<nextId, posted, patched, concurrent>>

ListCustomer ==
    LET out == list_customer(table)
    IN  /\ req' = [op |-> "list_customer"]
        /\ resp' = out.resp
        /\ table' = out.table
        /\ UNCHANGED <<nextId, deleted, posted, patched, concurrent>>

\* The requests below touch no storage session.
Root ==
    /\ req' = [op |-> "root"]
    /\ resp' = root
    /\ UNCHANGED <<table, nextId, deleted, posted, patched, concurrent>>

TimeOf(codes) ==
    \E iso_code \in codes :
        /\ req' = [iso_code |-> iso_code, op |-> "time"]
        /\ resp' = time(iso_code)
        /\ UNCHANGED <<table, nextId, deleted, posted, patched, concurrent>>

Time == TimeOf(IsoCodes)

TimeAnyCode == TimeOf(AllIsoCodes)

CreateTransaction ==
    \E body \in TransactionBodies :
        /\ req' = [body |-> body, op |-> "create_transaction"]
        /\ resp' = create_transaction(body)
        /\ UNCHANGED <<table, nextId, deleted, posted, patched, concurrent>>

CreateInvoice ==
    \E body \in InvoiceBodies :
        /\ req' = [body |-> body, op |-> "create_invoice"]
        /\ resp' = create_invoice(body)
        /\ UNCHANGED <<table, nextId, deleted, posted, patched, concurrent>>

Next ==
    \/ Root
    \/ Time
    \/ CreateCustomer
    \/ ReadCustomer
    \/ UpdateCustomer
    \/ DeleteCustomer
    \/ ListCustomer
    \/ CreateTransaction
    \/ CreateInvoice

Spec == Init /\ [][Next]_vars

\* GET /time/{iso_code} alone, over every path parameter of AllIsoCodes.
NextTime == TimeAnyCode

TimeSpec == Init /\ [][NextTime]_vars

---------------------------------------------------------------------------
(* Concurrent requests.  Every handler of app/main.py is an "async def"     *)
(* whose body holds no await: the session calls are synchronous.  The      *)
(* event loop therefore runs a handler from its first statement to its     *)
(* return before it starts or resumes another one.  A request is received  *)
(* (its session opened), then its handler looks the customer up, and then  *)
(* changes and commits it; each request has a session of its own, holding  *)
(* the record it loaded.                                                   *)

\* Faulty variant of Yields: the handler gives up the event loop at its
\* storage calls, as it would were they awaited.
Yields_at_storage_calls(pc) == pc = "loaded"

\* Whether a handler at position pc gives up the event loop: there is no
\* await between session.get and session.commit.
Yields(pc) == FALSE

Pending == Response(0, None)

\* session.add(customer_db); session.commit(); session.refresh(customer_db)
\* in update_customer: the UPDATE sets the columns that sqlmodel_update
\* changed on the loaded record, on the row with its primary key; when that
\* row is gone the commit raises.
commit_update(t, loaded, body) ==
    LET new == sqlmodel_update(loaded, model_dump_exclude_unset(CustomerUpdate(body)))
        current == session_get(t, loaded["id"].n)
    IN  IF current = {} THEN Outcome(ServerError, t)
        ELSE LET cur == CHOOSE r \in current : TRUE
                 stored == [k \in CustomerFields |->
                               IF new[k] # loaded[k] THEN new[k] ELSE cur[k]]
             IN  Outcome(Response(HTTP_201_CREATED, stored), (t \ current) \cup {stored})

\* session.delete(customer_db); session.commit() in delete_customer: the
\* DELETE names the primary key of the loaded record, whatever the row now
\* holds; a DELETE that matches no row only warns, so the commit succeeds
\* and the handler answers ok.
commit_delete(t, loaded) ==
    LET current == session_get(t, loaded["id"].n)
    IN  Outcome(Response(HTTP_200_OK, [detail |-> "ok"]), t \ current)

ConcurrentBodies == { Object({<<"age", PyInt(30)>>}) }

\* A request is received.
Arrive ==
    \E op \in {"create_customer", "update_customer", "delete_customer"},
       customer_id \in 1 .. MaxCustomers, body \in ConcurrentBodies \cup {Body1} :
        /\ Len(requests) < MaxRequests
        /\ op = "create_customer" =>
              /\ customer_id = 1
              /\ body = Body1
              /\ Cardinality({i \in DOMAIN requests : requests[i].op = op}) < MaxCustomers
        /\ op = "update_customer" => body \in ConcurrentBodies
        /\ op = "delete_customer" => body = Body1
        /\ requests' = Append(requests,
              [resp |-> Pending, body |-> body, customer_id |-> customer_id,
               customer_db |-> {}, op |-> op,
               pc |-> "received",
               existed |-> (op # "create_customer" /\ session_get(table, customer_id) # {})])
        /\ UNCHANGED <<table, nextId, deleted, running, sequential>>

\* create_customer runs, from its first statement to its return.
HandleCreate ==
    \E i \in DOMAIN requests :
        LET out == create_customer(table, nextId, requests[i].body)
        IN  /\ running = 0
            /\ requests[i].pc = "received"
            /\ requests[i].op = "create_customer"
            /\ requests' = [requests EXCEPT ![i].pc = "done", ![i].resp = out.resp]
            /\ table' = out.table
            /\ nextId' = IF out.resp.status = HTTP_200_OK THEN nextId + 1 ELSE nextId
            /\ UNCHANGED <<deleted, running, sequential>>

\* update_customer or delete_customer starts: session.get and the 404 test.
Lookup ==
    \E i \in DOMAIN requests :
        LET customer_db == session_get(table, requests[i].customer_id)
        IN  /\ running = 0
            /\ requests[i].pc = "received"
            /\ requests[i].op \in {"update_customer", "delete_customer"}
            /\ IF customer_db = {}
               THEN /\ requests' = [requests EXCEPT ![i].pc = "done", ![i].resp = NotFound]
                    /\ running' = 0
               ELSE /\ requests' = [requests EXCEPT ![i].pc = "loaded",
                                                    ![i].customer_db = customer_db]
                    /\ running' = IF Yields("loaded") THEN 0 ELSE i
            /\ UNCHANGED <<table, nextId, deleted, sequential>>

\* update_customer or delete_customer goes on: the change, the commit and
\* the return.
Commit ==
    \E i \in DOMAIN requests :
        LET loaded == CHOOSE r \in requests[i].customer_db : TRUE
            out == IF requests[i].op = "update_customer"
                   THEN commit_update(table, loaded, requests[i].body)
                   ELSE commit_delete(table, loaded)
        IN  /\ requests[i].pc = "loaded"
            /\ running = IF Yields("loaded") THEN 0 ELSE i
            /\ requests' = [requests EXCEPT ![i].pc = "done", ![i].resp = out.resp]
            /\ table' = out.table
            /\ deleted' = IF requests[i].op = "delete_customer"
                             /\ out.resp.status = HTTP_200_OK
                          THEN deleted \cup {requests[i].customer_id} ELSE deleted
            /\ running' = 0
            /\ UNCHANGED <<nextId, sequential>>

NextConcurrent ==
    \/ Arrive
    \/ HandleCreate
    \/ Lookup
    \/ Commit

ConcurrentSpec == Init /\ [][NextConcurrent]_vars

---------------------------------------------------------------------------
(* Properties *)

\* Ids that POST /customers has returned so far.
CreatedIds == {posted[i]["id"].n : i \in DOMAIN posted}

\* The fields of CustomerBase a request body gives explicitly.
Given(body) == DOMAIN body \cap BaseFields

\* C1 (as claimed): every POST /customers whose body is a valid
\* CustomerCreate succeeds with the input's name, description, email and age
\* (an omitted field being null) and an integer id, and no two POSTs ever
\* return the same id.
C1_EveryValidCreateSucceeds ==
    /\ (req.op = "create_customer" /\ CustomerCreate(req.body).ok) =>
          /\ resp.status = HTTP_200_OK
          /\ resp.body["id"].t = "int"
          /\ \A k \in BaseFields :
                resp.body[k] = IF k \in Given(req.body) THEN req.body[k] ELSE None
    /\ \A i, j \in DOMAIN posted : posted[i]["id"] = posted[j]["id"] => i = j

\* C2 (as claimed): in every reachable state, a GET, a DELETE or a PATCH with
\* any payload that names an id no POST has returned is answered 404
\* "Customer doesn't exist".
C2_NeverCreatedIs404_AnyPayload ==
    ( /\ req.op \in {"read_customer", "update_customer", "delete_customer"}
      /\ req.customer_id \notin CreatedIds )
    => ( /\ resp.status = HTTP_404_NOT_FOUND
         /\ resp.body = [detail |-> "Customer doesn't exist"] )

\* C2 (amended): in every reachable state, for every id that no POST has
\* returned, GET and DELETE answer 404 "Customer doesn't exist", and so does
\* PATCH with every body that is a CustomerUpdate; PATCH with a body that is
\* not a CustomerUpdate (a null or a value of the wrong type for name, email
\* or age) answers 422 instead.  Neither changes the table, and the request
\* handled last, when it named such an id, was answered so.
C2_NeverCreatedIs404 ==
    /\ \A id \in CustomerIds \ CreatedIds :
          /\ read_customer(table, id) = Outcome(NotFound, table)
          /\ delete_customer(table, id) = Outcome(NotFound, table)
          /\ \A body \in CustomerBodies :
                update_customer(table, id, body) =
                    Outcome(IF CustomerUpdate(body).ok THEN NotFound ELSE ValidationError,
                            table)
    /\ ( /\ req.op \in {"read_customer", "update_customer", "delete_customer"}
         /\ req.customer_id \notin CreatedIds )
       => IF req.op = "update_customer" /\ ~CustomerUpdate(req.body).ok
          THEN resp.status = 422
          ELSE /\ resp.status = HTTP_404_NOT_FOUND
               /\ resp.body = [detail |-> "Customer doesn't exist"]

C2_Witness ==
    /\ req.op = "update_customer"
    /\ req.customer_id \notin CreatedIds
    /\ req.body = Object({<<"age", PyInt(30)>>})
    /\ table # {}
    /\ resp = NotFound

\* C3: a PATCH that succeeds leaves the targeted record with the body's value
\* in every field the body gives and its previous value in every field the
\* body omits, returns that record, and changes no other row.
C3_PatchStep ==
    (req'.op = "update_customer" /\ resp'.status = HTTP_201_CREATED) =>
        LET id == req'.customer_id
            old == CHOOSE r \in table : r["id"] = PyInt(id)
            new == CHOOSE r \in table' : r["id"] = PyInt(id)
        IN  /\ \E r \in table : r["id"] = PyInt(id)
            /\ \E r \in table' : r["id"] = PyInt(id)
            /\ \A k \in BaseFields :
                  new[k] = IF k \in Given(req'.body) THEN req'.body[k] ELSE old[k]
            /\ resp'.body = new
            /\ table' \ {new} = table \ {old}

C3_PatchOverwritesOnlyGivenFields == [][C3_PatchStep]_vars

C3_Witness ==
    /\ req.op = "update_customer"
    /\ req.body = Object({<<"age", PyInt(30)>>})
    /\ resp.status = HTTP_201_CREATED
    /\ resp.body["age"] = PyInt(30)
    /\ resp.body["name"] = PyStr("Ann")
    /\ resp.body["description"] = PyStr("vip")
    /\ \E i \in DOMAIN posted :
          posted[i]["id"] = resp.body["id"] /\ posted[i]["age"] = PyInt(41)
    /\ Cardinality(table) = 2

\* C4 (as claimed): after a PATCH of an existing customer, every field the
\* body set to null is null in the stored record, whichever of the four
\* fields it is.
C4_NullOverwritesEveryField ==
    (req.op = "update_customer" /\ session_get(table, req.customer_id) # {}) =>
        \A r \in session_get(table, req.customer_id) :
            \A k \in Given(req.body) : req.body[k] = None => r[k] = None

\* C4 (amended): in a PATCH of an existing customer, an explicit null for
\* description overwrites the stored description with null, while an
\* explicit null for name, email or age is refused by request validation
\* (422) and leaves the table as it was; a field the body omits keeps its
\* stored value in either case.
C4_PatchNullStep ==
    (req'.op = "update_customer" /\ session_get(table, req'.customer_id) # {}) =>
        LET id == req'.customer_id
            body == req'.body
            old == CHOOSE r \in table : r["id"] = PyInt(id)
            nulled == {k \in Given(body) : body[k] = None}
        IN  /\ (nulled \cap {"age", "email", "name"} # {}) =>
                  /\ resp'.status = 422
                  /\ table' = table
            /\ (nulled = {"description"} /\ resp'.status # 422) =>
                  /\ resp'.status = HTTP_201_CREATED
                  /\ \A r \in session_get(table', id) : r["description"] = None
            /\ \A r \in session_get(table', id) :
                  \A k \in BaseFields \ Given(body) : r[k] = old[k]

C4_NullOverwritesDescriptionOnly == [][C4_PatchNullStep]_vars

C4_Witness ==
    /\ req.op = "update_customer"
    /\ req.body = Object({<<"description", None>>, <<"name", PyStr("Bob")>>})
    /\ resp.status = HTTP_201_CREATED
    /\ resp.body["description"] = None
    /\ resp.body["age"] = PyInt(41)
    /\ \E i \in DOMAIN posted :
          posted[i]["id"] = resp.body["id"] /\ posted[i]["description"] = PyStr("vip")

\* C5: once DELETE /customer/{id} has returned {"detail": "ok"}, GET
\* /customer/{id} answers 404.
C5_DeletedIs404 ==
    /\ \A id \in deleted : read_customer(table, id).resp = NotFound
    /\ (req.op = "read_customer" /\ req.customer_id \in deleted) => resp = NotFound
    /\ (req.op = "delete_customer" /\ resp.status = HTTP_200_OK) =>
          /\ resp.body = [detail |-> "ok"]
          /\ req.customer_id \in deleted

C5_Witness ==
    /\ req.op = "read_customer"
    /\ req.customer_id \in deleted
    /\ resp = NotFound
    /\ table # {}

\* C6: while nothing has been deleted, GET /customers returns one record per
\* successful POST /customers, with the ids those POSTs returned and no
\* other; while nothing has been patched either, the records are the ones
\* the POSTs returned.
C6_ListIsWhatWasCreated ==
    (req.op = "list_customer" /\ deleted = {}) =>
        /\ resp.status = HTTP_200_OK
        /\ Len(resp.body) = Len(posted)
        /\ {resp.body[i]["id"] : i \in DOMAIN resp.body}
              = {posted[i]["id"] : i \in DOMAIN posted}
        /\ \A i, j \in DOMAIN resp.body : resp.body[i]["id"] = resp.body[j]["id"] => i = j
        /\ ~patched =>
              {resp.body[i] : i \in DOMAIN resp.body} = {posted[i] : i \in DOMAIN posted}

C6_Witness ==
    /\ req.op = "list_customer"
    /\ deleted = {}
    /\ ~patched
    /\ Len(posted) >= 2
    /\ Len(resp.body) = Len(posted)
    /\ \E i, j \in DOMAIN resp.body : resp.body[i]["name"] # resp.body[j]["name"]

\* C7: no two stored customers share an id, and a PATCH, whatever its body,
\* leaves every stored id as it was: the ids in the table are the same
\* before and after, and the record returned carries the id of the path.
C7_UniqueIds ==
    \A r1, r2 \in table : r1["id"] = r2["id"] => r1 = r2

C7_PatchKeepsIds ==
    (req'.op = "update_customer") =>
        /\ {r["id"] : r \in table'} = {r["id"] : r \in table}
        /\ Cardinality(table') = Cardinality(table)
        /\ resp'.status = HTTP_201_CREATED => resp'.body["id"] = PyInt(req'.customer_id)

C7_IdUniqueAndImmutable == [](C7_UniqueIds) /\ [][C7_PatchKeepsIds]_vars

C7_Witness ==
    /\ req.op = "update_customer"
    /\ "id" \in DOMAIN req.body
    /\ req.body["id"] # PyInt(req.customer_id)
    /\ resp.status = HTTP_201_CREATED
    /\ resp.body["id"] = PyInt(req.customer_id)
    /\ Cardinality(table) = 2

\* C8: GET /time/{iso_code} succeeds exactly when iso_code is CO, MX, AR, BR
\* or PE in any mix of upper and lower case; it then returns the code in
\* capitals and the zone of the table (America/Bogota for co and CO alike);
\* every other code ends in a server error.
CaseFolds(c, capital) ==
    \/ c = capital
    \/ <<c, capital>> \in { <<"a", "A">>, <<"b", "B">>, <<"c", "C">>, <<"e", "E">>,
                            <<"m", "M">>, <<"o", "O">>, <<"p", "P">>, <<"r", "R">>,
                            <<"x", "X">> }

Spells(code, capitals) ==
    /\ Len(code) = Len(capitals)
    /\ \A i \in 1 .. Len(code) : CaseFolds(code[i], capitals[i])

C8_Zones ==
    { << <<"C", "O">>, "America/Bogota" >>,
      << <<"M", "X">>, "America/Mexico_City" >>,
      << <<"A", "R">>, "America/Argentina/Buenos_Aires" >>,
      << <<"B", "R">>, "America/Sao_Paulo" >>,
      << <<"P", "E">>, "America/Lima" >> }

C8_TimeSucceedsExactlyOnKnownCodes ==
    (req.op = "time") =>
        /\ \A z \in C8_Zones :
              Spells(req.iso_code, z[1]) =>
                  /\ resp.status = HTTP_200_OK
                  /\ resp.body.iso_code = z[1]
                  /\ resp.body.country_zone = PyStr(z[2])
        /\ (\A z \in C8_Zones : ~Spells(req.iso_code, z[1])) =>
              resp = Response(500, [detail |-> "Internal Server Error"])

C8_Witness ==
    /\ req.op = "time"
    /\ req.iso_code = <<"c", "o">>
    /\ resp.status = HTTP_200_OK
    /\ resp.body.iso_code = <<"C", "O">>
    /\ resp.body.country_zone = PyStr("America/Bogota")

\* C9 (as claimed): POST /transactions with a body of id, amount and
\* description, and POST /invoices with a body of id, customer, transactions
\* (each of id, amount and description) and total, answer 200 with the body
\* as it was sent.
IsTransactionShape(b) ==
    /\ DOMAIN b = {"id", "amount", "description"}
    /\ b["id"].t = "int"
    /\ b["amount"].t = "int"
    /\ b["description"].t = "str"

IsInvoiceShape(b) ==
    /\ DOMAIN b = {"id", "customer", "transactions", "total"}
    /\ b["id"].t = "int"
    /\ b["total"].t = "int"
    /\ DOMAIN b["customer"] = CustomerFields
    /\ \A i \in DOMAIN b["transactions"] : IsTransactionShape(b["transactions"][i])

C9_EchoesDataModelBodies ==
    /\ (req.op = "create_transaction" /\ IsTransactionShape(req.body)) =>
          resp = Response(HTTP_200_OK, req.body)
    /\ (req.op = "create_invoice" /\ IsInvoiceShape(req.body)) =>
          resp = Response(HTTP_200_OK, req.body)

\* C10: with requests handled concurrently, no handler's lookup and change
\* are separated by another handler: at most one handler is between its
\* lookup and its commit, and the record it holds is still the stored one.
\* No request ends in a server error; of the DELETEs of one id at most one
\* answers ok, and a DELETE or PATCH received while the customer existed
\* answers ok / 201, or else 404 after another request's DELETE answered ok;
\* an id whose DELETE answered ok is not in the table again.
Done(i, op) == requests[i].op = op /\ requests[i].pc = "done"

C10_HandlersAreNotSplit ==
    /\ \A i \in DOMAIN requests :
          /\ requests[i].resp.status # 500
          /\ requests[i].pc = "loaded" =>
                /\ running = i
                /\ requests[i].customer_db \subseteq table
          /\ (Done(i, "delete_customer") /\ requests[i].existed) =>
                \/ requests[i].resp = Response(HTTP_200_OK, [detail |-> "ok"])
                \/ /\ requests[i].resp = NotFound
                   /\ \E j \in DOMAIN requests \ {i} :
                         /\ Done(j, "delete_customer")
                         /\ requests[j].customer_id = requests[i].customer_id
                         /\ requests[j].resp.status = HTTP_200_OK
          /\ (Done(i, "update_customer") /\ requests[i].existed) =>
                \/ requests[i].resp.status = HTTP_201_CREATED
                \/ /\ requests[i].resp = NotFound
                   /\ requests[i].customer_id \in deleted
    /\ \A i, j \in DOMAIN requests :
          ( /\ Done(i, "delete_customer") /\ Done(j, "delete_customer")
            /\ requests[i].customer_id = requests[j].customer_id
            /\ requests[i].resp.status = HTTP_200_OK
            /\ requests[j].resp.status = HTTP_200_OK ) => i = j
    /\ \A id \in deleted : session_get(table, id) = {}

C10_Witness ==
    \E i, j, k \in DOMAIN requests :
        /\ i # j
        /\ Done(i, "delete_customer") /\ Done(j, "delete_customer") /\ Done(k, "update_customer")
        /\ requests[i].customer_id = requests[j].customer_id
        /\ requests[k].customer_id = requests[i].customer_id
        /\ requests[i].existed /\ requests[j].existed /\ requests[k].existed
        /\ requests[i].resp.status = HTTP_200_OK
        /\ requests[j].resp = NotFound
        /\ requests[k].resp = NotFound

=============================================================================
